---- MODULE Spec2Model ----
(***************************************************************************)
(* PR Correction Viewer (src/app.py): a Streamlit script.  Every user      *)
(* event re-executes the whole script top to bottom against the session's  *)
(* st.session_state (entry_idx, selected_file) and the session's widget    *)
(* states, and runs to completion before the next event is taken.  The     *)
(* model follows one viewing session: an action is one user event together *)
(* with the script run it triggers; the state is what the session holds    *)
(* between runs (payload, session state, widget states) and what the last  *)
(* run left on the page.                                                   *)
(*                                                                         *)
(* Streamlit's widget rules used by the script are modelled as documented: *)
(*  - a widget's identity is its key together with its arguments (label,   *)
(*    options, index): a call with a changed index is a new widget, which  *)
(*    returns its default options[index];                                  *)
(*  - a widget seen again with the same identity returns the value the     *)
(*    frontend last sent for it;                                           *)
(*  - st.selectbox raises StreamlitAPIException when index is outside the  *)
(*    options;                                                             *)
(*  - st.button returns True only in the run its click triggered;          *)
(*  - when a run ends (normally or by st.stop) the states of the widgets   *)
(*    the run did not call are dropped; a run ended by an uncaught         *)
(*    exception keeps them, and the page keeps only what the run drew.     *)
(***************************************************************************)
EXTENDS Integers, Sequences, FiniteSets, TLC

VARIABLES
  uploaded,       \* the file uploader holds a file
  data,           \* the payload read from it, a list of entries (<<>> stands
                  \* for None as well: the script only tests `not data`)
  session_state,  \* st.session_state: a function on the keys set so far
  wstore,         \* widget values set from the page: [key, opts, index, value]
                  \* (a widget without one has its default, options[index])
  seen,           \* widgets the last run called: the widgets on the page
  event,          \* the user event that triggered the last run
  pre,            \* session state when that event was issued
  files_dict,     \* the last run's files_dict: filename -> list of <<idx, entry>>
  filenames,      \* the last run's list(files_dict.keys())
  entries,        \* the last run's files_dict[selected_file]
  rendered,       \* what the last run drew of the retrieved entry
  uses,           \* where the last run used entry_idx as an index, with what
  err             \* the exception that ended the last run, or "none"

vars == <<uploaded, data, session_state, wstore, seen, event, pre,
          files_dict, filenames, entries, rendered, uses, err>>

----------------------------------------------------------------------------
(* Bounds of the model *)

\* longest payload
MaxEntries == 3
\* most keywords in one entry's comma-separated keywords string
MaxKeywords == 3
\* most lines in original_txt and in correction
MaxLines == 5

----------------------------------------------------------------------------
(* Values *)

NoEntry == <<>>
NoTable == [found |-> FALSE, rows |-> <<>>]
NoRender == [idx |-> -1, parts |-> {}, opcodes |-> <<>>, table |-> NoTable]
NoFiles == [f \in {} |-> <<>>]
NoEvent == [type |-> "none", location |-> "", arg |-> 0, file |-> ""]
NoPre == [file |-> "", idx |-> -1]
Locations == {"top", "bottom"}

RequiredFields == {"filename", "keywords", "explanation", "original_txt", "correction"}

\* Pieces between the commas of a keywords string, as they appear in a payload.
RawKeywords == {"grammar", "GRAMMAR", " spelling ", "capitalization", "punctuation", "style"}

\* str.strip() on the pieces
strip(s) == IF s = " spelling " THEN "spelling" ELSE s

\* str.lower() on the stripped pieces
lower(s) == IF s = "GRAMMAR" THEN "grammar" ELSE s

Range(s) == {s[i] : i \in DOMAIN s}

SeqsUpTo(S, n) == UNION {[1..k -> S] : k \in 0..n}

priority_order == <<"grammar", "spelling", "capitalization", "punctuation">>

\* entry_keywords = [k.strip().lower() for k in entry['keywords'].split(',')]
entry_keywords(e) == [i \in DOMAIN e.keywords |-> lower(strip(e.keywords[i]))]

RECURSIVE PriorityLoop(_, _)
\* for i, kw in enumerate(priority_order): if kw in entry_keywords: return i
\* (i is the 0-based position; falls out of the loop with len(priority_order))
PriorityLoop(kws, i) ==
  IF i >= Len(priority_order) THEN Len(priority_order)
  ELSE IF priority_order[i + 1] \in Range(kws) THEN i
  ELSE PriorityLoop(kws, i + 1)

RECURSIVE EntryOrderLoop(_, _)
\* the rank read off the entry's own keyword order: the priority index of the
\* first of the entry's keywords that is a priority keyword
EntryOrderLoop(kws, j) ==
  IF j > Len(kws) THEN Len(priority_order)
  ELSE IF kws[j] \in Range(priority_order)
       THEN (CHOOSE i \in 0..(Len(priority_order) - 1) : priority_order[i + 1] = kws[j])
       ELSE EntryOrderLoop(kws, j + 1)

get_priority_entry_order(e) == EntryOrderLoop(entry_keywords(e), 1)

get_priority(e) == PriorityLoop(entry_keywords(e), 0)

----------------------------------------------------------------------------
(* The catalog: files_dict and filenames *)

\* an enumeration that counts from 1
EnumerateFromOne(d) == [i \in DOMAIN d |-> <<i, d[i]>>]

\* enumerate(data): 0-based idx with the entry
Enumerate(d) == [i \in DOMAIN d |-> <<i - 1, d[i]>>]

\* the filenames of the input in alphabetical order
FilenamesAlphabetical(d) ==
  SelectSeq(<<"a.txt", "b.txt">>, LAMBDA f : \E i \in DOMAIN d : d[i].filename = f)

RECURSIVE FirstOccurrences(_)
\* key order of a dict filled in input order: each filename where it first occurs
FirstOccurrences(d) ==
  IF d = <<>> THEN <<>>
  ELSE LET front == FirstOccurrences(SubSeq(d, 1, Len(d) - 1))
           f == d[Len(d)].filename
       IN IF f \in Range(front) THEN front ELSE Append(front, f)

\* a bucket assigned instead of appended to: only the file's last pair is kept
BucketLastOnly(d, f) ==
  LET all == SelectSeq(Enumerate(d), LAMBDA p : p[2].filename = f)
  IN IF all = <<>> THEN all ELSE <<all[Len(all)]>>

\* files_dict[entry['filename']].append((idx, entry)): the pairs of one file, in
\* input order
Bucket(d, f) == SelectSeq(Enumerate(d), LAMBDA p : p[2].filename = f)

\* a sort that places a pair before the pairs of equal key (not stable)
InsertBeforeEqual(sorted, p) ==
  LET after == {i \in 1..Len(sorted) : get_priority(sorted[i][2]) < get_priority(p[2])}
      k == IF after = {} THEN 0 ELSE CHOOSE i \in after : \A j \in after : j <= i
  IN SubSeq(sorted, 1, k) \o <<p>> \o SubSeq(sorted, k + 1, Len(sorted))

\* place of a new pair in a sorted list: after every pair whose key is <= its own
InsertAt(sorted, p) ==
  LET after == {i \in 1..Len(sorted) : get_priority(sorted[i][2]) <= get_priority(p[2])}
      k == IF after = {} THEN 0 ELSE CHOOSE i \in after : \A j \in after : j <= i
  IN SubSeq(sorted, 1, k) \o <<p>> \o SubSeq(sorted, k + 1, Len(sorted))

RECURSIVE SortByPriority(_)
\* list.sort(key=lambda x: get_priority(x[1])): a stable sort, ascending
SortByPriority(l) ==
  IF l = <<>> THEN <<>>
  ELSE InsertAt(SortByPriority(SubSeq(l, 1, Len(l) - 1)), l[Len(l)])

BuildFilesDict(d) == [f \in Range(FirstOccurrences(d)) |-> SortByPriority(Bucket(d, f))]

\* entry['filename'] or entry['keywords'] of an entry that lacks the field
BuildRaises(d) == \E i \in DOMAIN d : ~({"filename", "keywords"} \subseteq d[i].fields)

----------------------------------------------------------------------------
(* Payloads of the session specification *)

\* original_txt and correction are held as their lines (str.splitlines())
AllFields(f, kws) ==
  [fields |-> RequiredFields, filename |-> f, keywords |-> kws,
   original_txt |-> <<"p">>, correction |-> <<"q">>]

\* Entries of two files.  One lacks 'explanation' and sorts before the complete
\* entry of its file; one lacks 'keywords'.
SessionEntries ==
  { AllFields("a.txt", <<"style">>),
    AllFields("b.txt", <<" spelling ">>),
    [fields |-> RequiredFields \ {"explanation"}, filename |-> "a.txt",
     keywords |-> <<"punctuation", "GRAMMAR">>,
     original_txt |-> <<"p">>, correction |-> <<"q">>],
    [fields |-> RequiredFields \ {"keywords"}, filename |-> "b.txt", keywords |-> <<>>,
     original_txt |-> <<"p">>, correction |-> <<"q">>] }

Complete(e) == e.fields = RequiredFields

\* Payloads of up to MaxEntries entries, at most one of them lacking a field.
Payloads ==
  {p \in SeqsUpTo(SessionEntries, MaxEntries) :
     \A i, j \in DOMAIN p : ~Complete(p[i]) /\ ~Complete(p[j]) => i = j}

\* One-entry payloads over every keywords string of up to MaxKeywords pieces.
\* (str.split(',') yields at least one piece)
KeywordPayloads ==
  {<<AllFields("a.txt", kws)>> : kws \in SeqsUpTo(RawKeywords, MaxKeywords) \ {<<>>}}

\* Complete entries of two files, one keyword each, of three ranks.
SortEntries ==
  {AllFields(f, <<kw>>) : f \in {"a.txt", "b.txt"}, kw \in {"GRAMMAR", " spelling ", "style"}}

\* Payloads of one to MaxEntries such entries, in every order.
SortPayloads == SeqsUpTo(SortEntries, MaxEntries) \ {<<>>}

\* Lines of the texts: no two of them alike.
TextLines == {"p", "q"}

\* One-entry payloads over every pair of texts of up to MaxLines lines.
DiffPayloads ==
  {<<[AllFields("a.txt", <<"style">>) EXCEPT !.original_txt = A, !.correction = B]>> :
     A \in SeqsUpTo(TextLines, MaxLines), B \in SeqsUpTo(TextLines, MaxLines)}

----------------------------------------------------------------------------
(* st.session_state *)

Has(k) == k \in DOMAIN session_state
entry_idx == session_state["entry_idx"]
selected_file == session_state["selected_file"]

\* st.session_state.<k> = v
Set(ss, k, v) == [x \in DOMAIN ss \cup {k} |-> IF x = k THEN v ELSE ss[x]]

EmptySession == [x \in {} |-> 0]

----------------------------------------------------------------------------
(* Streamlit widgets *)

WidgetId(key, opts, index) == [key |-> key, opts |-> opts, index |-> index]
IdOf(w) == WidgetId(w.key, w.opts, w.index)

Stored(store, id) == {w \in store : IdOf(w) = id}

\* index outside the options: StreamlitAPIException
SelectboxRaises(opts, index) == Len(opts) > 0 /\ ~(index \in 0..(Len(opts) - 1))

\* position in the options of the option st.selectbox returns
SelectboxValue(store, id) ==
  IF Stored(store, id) # {} THEN (CHOOSE w \in Stored(store, id) : TRUE).value ELSE id.index

\* st.button(...): True in the run triggered by this button's click
ButtonClicked(ev, type, location) == ev.type = type /\ ev.location = location

ButtonId(type, location) == WidgetId(type \o "_" \o location, <<>>, 0)

\* the widget with this key on the page, if any
Displayed(key) == {id \in seen : id.key = key}

\* what a selectbox on the page shows
Shows(id) == id.opts[SelectboxValue(wstore, id) + 1]

\* filenames.index(f), 0-based
IndexOf(names, f) ==
  (CHOOSE i \in DOMAIN names : names[i] = f /\ \A j \in 1..(i - 1) : names[j] # f) - 1

\* options = [f"Entry {i+1}" for i in range(num_entries)]
EntryOptions(num_entries) == [i \in 1..num_entries |-> "Entry " \o ToString(i)]

FileSelectKey(location) == "file_select_" \o location
EntrySelectKey(location, file) == "select_entry_" \o location \o "_" \o file

----------------------------------------------------------------------------
(* difflib.HtmlDiff(wrapcolumn=80).make_table(fromlines, tolines,          *)
(* context=True, numlines=3), lines 156-163: the line alignment difflib    *)
(* computes (ndiff -> Differ.compare -> SequenceMatcher.get_opcodes, no    *)
(* junk; texts shorter than the 200 lines at which autojunk sets in) and   *)
(* the rows of the table with the context reduction.  Positions are        *)
(* 0-based and ranges half-open, as in difflib.                            *)

\* numlines=3
numlines == 3

\* a[i:i+k] == b[j:j+k]
SameBlock(a, b, i, j, k) == \A t \in 1..k : a[i + t] = b[j + t]

\* a search that never takes the whole of a[alo:ahi] as a block
find_longest_match_short(a, b, alo, ahi, blo, bhi) ==
  LET blocks == {m \in (alo..(ahi - 1)) \X (blo..(bhi - 1)) \X (1..(ahi - alo - 1)) :
                   /\ m[1] + m[3] <= ahi
                   /\ m[2] + m[3] <= bhi
                   /\ SameBlock(a, b, m[1], m[2], m[3])}
      Better(m, n) == \/ m[3] > n[3]
                      \/ m[3] = n[3] /\ m[1] < n[1]
                      \/ m[3] = n[3] /\ m[1] = n[1] /\ m[2] <= n[2]
  IN IF blocks = {} THEN <<alo, blo, 0>>
     ELSE CHOOSE m \in blocks : \A n \in blocks : Better(m, n)

\* SequenceMatcher.find_longest_match(alo, ahi, blo, bhi): the longest block
\* common to a[alo:ahi] and b[blo:bhi]; of the longest, the one that starts
\* earliest in a; of those, the one that starts earliest in b; <<alo, blo, 0>>
\* when nothing matches
find_longest_match(a, b, alo, ahi, blo, bhi) ==
  LET blocks == {m \in (alo..(ahi - 1)) \X (blo..(bhi - 1)) \X (1..(ahi - alo)) :
                   /\ m[1] + m[3] <= ahi
                   /\ m[2] + m[3] <= bhi
                   /\ SameBlock(a, b, m[1], m[2], m[3])}
      Better(m, n) == \/ m[3] > n[3]
                      \/ m[3] = n[3] /\ m[1] < n[1]
                      \/ m[3] = n[3] /\ m[1] = n[1] /\ m[2] <= n[2]
  IN IF blocks = {} THEN <<alo, blo, 0>>
     ELSE CHOOSE m \in blocks : \A n \in blocks : Better(m, n)

RECURSIVE MatchingBlocks(_, _, _, _, _, _)
\* get_matching_blocks, the queue: the longest match of the range, then the
\* ranges to its left and to its right; sorted
MatchingBlocks(a, b, alo, ahi, blo, bhi) ==
  LET x == find_longest_match(a, b, alo, ahi, blo, bhi)
      i == x[1]
      j == x[2]
      k == x[3]
  IN IF k = 0 THEN <<>>
     ELSE (IF alo < i /\ blo < j THEN MatchingBlocks(a, b, alo, i, blo, j) ELSE <<>>)
          \o <<x>> \o
          (IF i + k < ahi /\ j + k < bhi THEN MatchingBlocks(a, b, i + k, ahi, j + k, bhi)
           ELSE <<>>)

RECURSIVE NonAdjacent(_, _, _)
\* get_matching_blocks, the collapse of adjacent equal blocks: cur is
\* (i1, j1, k1), n the next block to look at
NonAdjacent(blocks, n, cur) ==
  IF n > Len(blocks) THEN (IF cur[3] > 0 THEN <<cur>> ELSE <<>>)
  ELSE LET nxt == blocks[n]
       IN IF cur[1] + cur[3] = nxt[1] /\ cur[2] + cur[3] = nxt[2]
          THEN NonAdjacent(blocks, n + 1, <<cur[1], cur[2], cur[3] + nxt[3]>>)
          ELSE (IF cur[3] > 0 THEN <<cur>> ELSE <<>>) \o NonAdjacent(blocks, n + 1, nxt)

\* SequenceMatcher.get_matching_blocks(): ends with the dummy (la, lb, 0)
get_matching_blocks(a, b) ==
  Append(NonAdjacent(MatchingBlocks(a, b, 0, Len(a), 0, Len(b)), 1, <<0, 0, 0>>),
         <<Len(a), Len(b), 0>>)

\* the tags of a gap in a alone and of a gap in b alone exchanged
GapTagSwapped(i, ai, j, bj) ==
  IF i < ai /\ j < bj THEN "replace"
  ELSE IF i < ai THEN "insert"
  ELSE IF j < bj THEN "delete"
  ELSE ""

\* the tag get_opcodes gives the gap before a matching block
GapTag(i, ai, j, bj) ==
  IF i < ai /\ j < bj THEN "replace"
  ELSE IF i < ai THEN "delete"
  ELSE IF j < bj THEN "insert"
  ELSE ""

Opcode(tag, i1, i2, j1, j2) == [tag |-> tag, i1 |-> i1, i2 |-> i2, j1 |-> j1, j2 |-> j2]

RECURSIVE OpcodesLoop(_, _, _, _)
\* get_opcodes, the loop over the matching blocks from block n on, with i and j
\* the ends of the block before
OpcodesLoop(blocks, n, i, j) ==
  IF n > Len(blocks) THEN <<>>
  ELSE LET ai == blocks[n][1]
           bj == blocks[n][2]
           size == blocks[n][3]
           tag == GapTag(i, ai, j, bj)
       IN (IF tag # "" THEN <<Opcode(tag, i, ai, j, bj)>> ELSE <<>>)
          \o (IF size > 0 THEN <<Opcode("equal", ai, ai + size, bj, bj + size)>> ELSE <<>>)
          \o OpcodesLoop(blocks, n + 1, ai + size, bj + size)

\* SequenceMatcher(None, a, b).get_opcodes()
get_opcodes(a, b) == OpcodesLoop(get_matching_blocks(a, b), 1, 0, 0)

\* the rows of one opcode: an unchanged line is a row of its own; a changed
\* range is kept whole (how its lines pair up into rows does not matter here)
RowsOf(op) ==
  IF op.tag = "equal"
  THEN [t \in 1..(op.i2 - op.i1) |->
          [flag |-> FALSE, tag |-> "equal", i1 |-> op.i1 + t - 1, i2 |-> op.i1 + t,
           j1 |-> op.j1 + t - 1, j2 |-> op.j1 + t]]
  ELSE <<[flag |-> TRUE, tag |-> op.tag, i1 |-> op.i1, i2 |-> op.i2,
          j1 |-> op.j1, j2 |-> op.j2]>>

RECURSIVE AllRows(_, _)
AllRows(ops, n) == IF n > Len(ops) THEN <<>> ELSE RowsOf(ops[n]) \o AllRows(ops, n + 1)

\* _mdiff with context: a row is kept when it is changed or within numlines
\* rows of a changed one
ContextRows(rows) ==
  LET kept(n) == \/ rows[n].flag
                 \/ \E m \in DOMAIN rows :
                      rows[m].flag /\ m - n <= numlines /\ n - m <= numlines
      F[n \in 0..Len(rows)] ==
        IF n = 0 THEN <<>> ELSE IF kept(n) THEN Append(F[n - 1], rows[n]) ELSE F[n - 1]
  IN F[Len(rows)]

\* make_table(fromlines, tolines, context=True, numlines=3): the rows of the
\* table; with no changed row the table reads "No Differences Found"
make_table(fromlines, tolines) ==
  LET rows == ContextRows(AllRows(get_opcodes(fromlines, tolines), 1))
  IN [found |-> rows # <<>>, rows |-> rows]

----------------------------------------------------------------------------
(* The script.  A run is a record r: the session state and widget states it *)
(* works on, the script's globals, what it has drawn, and whether it has    *)
(* ended (st.stop or an uncaught exception).  Each section of the script    *)
(* maps the run before it to the run after it.                              *)

NewRun(ev, d, store) ==
  [event |-> ev, data |-> d, ss |-> session_state, store |-> store, called |-> {},
   files_dict |-> NoFiles, filenames |-> <<>>, entries |-> <<>>, entry |-> NoEntry,
   rendered |-> NoRender, uses |-> <<>>, ended |-> FALSE, err |-> "none"]

\* an uncaught exception ends the run
Raise(r, e) == [r EXCEPT !.ended = TRUE, !.err = e]

\* a script without the guard
GuardAbsent(r) == r

\* lines 54-57: if not data: st.stop()
GuardAgainstNone(r) ==
  IF r.ended THEN r
  ELSE IF r.data = <<>> THEN [r EXCEPT !.ended = TRUE] ELSE r

\* lines 72-79
Organize(r) ==
  IF r.ended THEN r
  ELSE IF BuildRaises(r.data) THEN Raise(r, "KeyError")
  ELSE [r EXCEPT !.files_dict = BuildFilesDict(r.data),
                 !.filenames = FirstOccurrences(r.data)]

\* lines 82-85
InitializeSessionState(r) ==
  IF r.ended THEN r
  ELSE LET s1 == IF "entry_idx" \in DOMAIN r.ss THEN r.ss ELSE Set(r.ss, "entry_idx", 0)
       IN IF "selected_file" \in DOMAIN s1 THEN [r EXCEPT !.ss = s1]
          ELSE IF r.filenames = <<>> THEN Raise([r EXCEPT !.ss = s1], "IndexError")
          ELSE [r EXCEPT !.ss = Set(s1, "selected_file", r.filenames[1])]

\* lines 88-94
file_selector(r, location) ==
  IF r.ended THEN r
  ELSE IF ~(r.ss["selected_file"] \in Range(r.filenames)) THEN Raise(r, "ValueError")
  ELSE LET id == WidgetId(FileSelectKey(location), r.filenames,
                          IndexOf(r.filenames, r.ss["selected_file"]))
       IN [r EXCEPT !.ss = Set(r.ss, "selected_file",
                               r.filenames[SelectboxValue(r.store, id) + 1]),
                    !.called = r.called \cup {id}]

\* line 118 / line 168
SelectEntries(r) ==
  IF r.ended THEN r
  ELSE [r EXCEPT !.entries = r.files_dict[r.ss["selected_file"]]]

\* if ... entry_idx > 0: entry_idx -= 1
PrevIdx(i) == IF i > 0 THEN i - 1 ELSE i

\* a guard that lets Next step past the last entry
NextIdxPastEnd(i, num_entries) == IF i < num_entries THEN i + 1 ELSE i

\* if ... entry_idx < num_entries - 1: entry_idx += 1
NextIdx(i, num_entries) == IF i < num_entries - 1 THEN i + 1 ELSE i

\* lines 97-114
navigation_controls(r, location) ==
  IF r.ended THEN r
  ELSE LET num_entries == Len(r.entries)
           i0 == r.ss["entry_idx"]
           i1 == IF ButtonClicked(r.event, "prev", location) THEN PrevIdx(i0) ELSE i0
           i2 == IF ButtonClicked(r.event, "next", location) THEN NextIdx(i1, num_entries) ELSE i1
           buttons == {ButtonId("prev", location), ButtonId("next", location)}
           id == WidgetId(EntrySelectKey(location, r.ss["selected_file"]),
                          EntryOptions(num_entries), i2)
           use == [at |-> "select_entry_" \o location, idx |-> i2, len |-> num_entries]
           r1 == [r EXCEPT !.ss = Set(r.ss, "entry_idx", i2),
                           !.called = r.called \cup buttons,
                           !.uses = Append(r.uses, use)]
       IN IF SelectboxRaises(id.opts, i2) THEN Raise(r1, "StreamlitAPIException")
          ELSE [r1 EXCEPT !.ss = Set(r.ss, "entry_idx", SelectboxValue(r.store, id)),
                          !.called = r.called \cup buttons \cup {id}]

\* if entry_idx >= len(entries): entry_idx = 0
ClampIdx(i, num_entries) == IF i >= num_entries THEN 0 ELSE i

\* lines 121-124
RetrieveEntry(r) ==
  IF r.ended THEN r
  ELSE LET i == ClampIdx(r.ss["entry_idx"], Len(r.entries))
           use == [at |-> "entries", idx |-> i, len |-> Len(r.entries)]
           r1 == [r EXCEPT !.ss = Set(r.ss, "entry_idx", i), !.uses = Append(r.uses, use)]
       IN IF i < Len(r.entries) THEN [r1 EXCEPT !.entry = r.entries[i + 1]]
          ELSE Raise(r1, "IndexError")

\* the order in which lines 141-164 read the entry's fields
RenderOrder == <<"keywords", "explanation", "original_txt", "correction">>

RECURSIVE DrawnParts(_, _)
\* the parts drawn before the first field the entry lacks; the diff comes last
DrawnParts(fields, k) ==
  IF k > Len(RenderOrder) THEN {"diff"}
  ELSE IF RenderOrder[k] \in fields THEN {RenderOrder[k]} \cup DrawnParts(fields, k + 1)
  ELSE {}

\* lines 141-164
RenderEntry(r) ==
  IF r.ended THEN r
  ELSE LET e == r.entry[2]
           ok == RequiredFields \subseteq e.fields
           r1 == [r EXCEPT !.rendered =
                    [idx |-> r.entry[1],
                     parts |-> DrawnParts(e.fields, 1),
                     opcodes |-> IF ok THEN get_opcodes(e.original_txt, e.correction) ELSE <<>>,
                     table |-> IF ok THEN make_table(e.original_txt, e.correction)
                               ELSE NoTable]]
       IN IF ok THEN r1 ELSE Raise(r1, "KeyError")

\* the end of a run: unless an exception ended it, the states of the widgets the
\* run did not call are dropped
Finished(r) ==
  IF r.err # "none" THEN r
  ELSE [r EXCEPT !.ended = TRUE, !.store = {w \in r.store : IdOf(w) \in r.called}]

\* src/app.py, top to bottom
Script(r) ==
  LET loaded == InitializeSessionState(Organize(GuardAgainstNone(r)))
      top == navigation_controls(SelectEntries(file_selector(loaded, "top")), "top")
      drawn == RenderEntry(RetrieveEntry(top))
      bottom == navigation_controls(SelectEntries(file_selector(drawn, "bottom")), "bottom")
  IN Finished(bottom)

----------------------------------------------------------------------------
(* User events; each one reruns the script *)

SessionSnapshot ==
  [file |-> IF Has("selected_file") THEN selected_file ELSE "",
   idx |-> IF Has("entry_idx") THEN entry_idx ELSE -1]

\* the session after the run that event ev triggers, on payload d and the widget
\* states as the frontend sent them
Rerun(ev, d, store) ==
  \E r \in {Script(NewRun(ev, d, store))} :
     /\ data' = d
     /\ session_state' = r.ss
     /\ wstore' = r.store
     /\ seen' = r.called
     /\ event' = ev
     /\ pre' = SessionSnapshot
     /\ files_dict' = r.files_dict
     /\ filenames' = r.filenames
     /\ entries' = r.entries
     /\ rendered' = r.rendered
     /\ uses' = r.uses
     /\ err' = r.err

\* the frontend sends the widget's new value
SetValue(id, v) ==
  (wstore \ Stored(wstore, id)) \cup
    (IF v = id.index THEN {}
     ELSE {[key |-> id.key, opts |-> id.opts, index |-> id.index, value |-> v]})

\* line 47: a file is uploaded (to replace a file, the user removes it first)
Open(payload) ==
  /\ ~uploaded
  /\ uploaded' = TRUE
  /\ Rerun([type |-> "upload", location |-> "", arg |-> 0, file |-> ""], payload, wstore)

\* line 47: the uploaded file is removed
RemoveUpload ==
  /\ uploaded
  /\ uploaded' = FALSE
  /\ Rerun([type |-> "remove", location |-> "", arg |-> 0, file |-> ""], <<>>, wstore)

\* another file is picked in a file selector on the page
SelectFile(location, v) ==
  \E w \in Displayed(FileSelectKey(location)) :
    /\ v \in 0..(Len(w.opts) - 1)
    /\ v # SelectboxValue(wstore, w)
    /\ UNCHANGED uploaded
    /\ Rerun([type |-> "select_file", location |-> location, arg |-> v, file |-> w.opts[v + 1]],
             data, SetValue(w, v))

\* another entry is picked in an entry selector on the page
SelectEntry(location, v) ==
  \E f \in Range(filenames) : \E w \in Displayed(EntrySelectKey(location, f)) :
    /\ v \in 0..(Len(w.opts) - 1)
    /\ v # SelectboxValue(wstore, w)
    /\ UNCHANGED uploaded
    /\ Rerun([type |-> "select_entry", location |-> location, arg |-> v, file |-> ""],
             data, SetValue(w, v))

\* a Prev or Next button on the page is clicked
Click(type, location) ==
  /\ ButtonId(type, location) \in seen
  /\ UNCHANGED uploaded
  /\ Rerun([type |-> type, location |-> location, arg |-> 0, file |-> ""], data, wstore)

Prev(location) == Click("prev", location)
ClickNext(location) == Click("next", location)

----------------------------------------------------------------------------
(* The session *)

\* a session opened without a file: the first run stops at line 57
Init ==
  /\ uploaded = FALSE
  /\ data = <<>>
  /\ session_state = EmptySession
  /\ wstore = {}
  /\ seen = {}
  /\ event = NoEvent
  /\ pre = NoPre
  /\ files_dict = NoFiles
  /\ filenames = <<>>
  /\ entries = <<>>
  /\ rendered = NoRender
  /\ uses = <<>>
  /\ err = "none"

Navigate ==
  \/ \E location \in Locations, v \in 0..(MaxEntries - 1) : SelectFile(location, v)
  \/ \E location \in Locations, v \in 0..(MaxEntries - 1) : SelectEntry(location, v)
  \/ \E location \in Locations : Prev(location)
  \/ \E location \in Locations : ClickNext(location)

Next ==
  \/ \E payload \in Payloads : Open(payload)
  \/ RemoveUpload
  \/ Navigate

Spec == Init /\ [][Next]_vars

TypeOK ==
  /\ err \in {"none", "KeyError", "ValueError", "StreamlitAPIException", "IndexError"}
  /\ DOMAIN session_state \subseteq {"entry_idx", "selected_file"}

\* fresh sessions opened on one-entry payloads of every keywords string
NextPriority == \E payload \in KeywordPayloads : Open(payload)

SpecPriority == Init /\ [][NextPriority]_vars

\* fresh sessions opened on payloads of complete entries in every order
NextSort == \E payload \in SortPayloads : Open(payload)

SpecSort == Init /\ [][NextSort]_vars

\* fresh sessions opened on one-entry payloads of every pair of texts
NextDiff == \E payload \in DiffPayloads : Open(payload)

SpecDiff == Init /\ [][NextDiff]_vars

----------------------------------------------------------------------------
(* What the page shows after a run *)

NavigationEvents == {"select_file", "prev", "next", "select_entry"}

\* the catalog was built: navigation is enabled
CatalogBuilt == filenames # <<>>

EntrySelectors(location) ==
  {id \in seen : \E f \in Range(filenames) : id.key = EntrySelectKey(location, f)}

\* both control pairs are on the page
AllControlsShown ==
  \A location \in Locations :
    /\ Displayed(FileSelectKey(location)) # {}
    /\ EntrySelectors(location) # {}

\* entry_idx is a position in the selected file's list, in catalog c
InRangeOf(c, file, idx) == file \in DOMAIN c /\ 0 <= idx /\ idx < Len(c[file])

----------------------------------------------------------------------------
(* C1 *)

\* C1 (as claimed): picking a filename other than the selected one, in either
\* file selector, leaves selected_file at that filename and entry_idx at 0,
\* whatever the index was before and whatever the sizes of the two files.
C1_FileSwitchResets ==
  (event.type = "select_file" /\ event.file # pre.file)
    => (selected_file = event.file /\ entry_idx = 0)

----------------------------------------------------------------------------
(* C2 *)

\* C2 (as claimed): wherever a run uses entry_idx as an index (the index of an
\* entry selector, the subscript of the entry lookup) it is a position in the
\* selected file's non-empty entry list.
C2_IndexInRangeWhereUsed ==
  \A k \in DOMAIN uses : uses[k].len > 0 => (0 <= uses[k].idx /\ uses[k].idx < uses[k].len)

----------------------------------------------------------------------------
(* C3 *)

\* C3 (as claimed): when the run triggered by an interaction with the top or
\* the bottom controls has completed, both file selectors show selected_file
\* and both entry selectors show entry_idx.
C3_ControlsAgree ==
  (event.type \in NavigationEvents /\ err = "none" /\ AllControlsShown)
    => \A location \in Locations :
         /\ \A id \in Displayed(FileSelectKey(location)) : Shows(id) = selected_file
         /\ \A id \in EntrySelectors(location) : SelectboxValue(wstore, id) = entry_idx

----------------------------------------------------------------------------
(* C4 *)

\* C4 (as claimed): after a new dataset is loaded in the session, selected_file
\* is the first filename of the new catalog and entry_idx is 0, whatever they
\* were before.
C4_ReloadResets ==
  (event.type = "upload" /\ data # <<>> /\ ~BuildRaises(data))
    => /\ Has("selected_file") /\ Has("entry_idx")
       /\ selected_file = FirstOccurrences(data)[1]
       /\ entry_idx = 0

----------------------------------------------------------------------------
(* C5 *)

\* C5 (as claimed): whenever the catalog is non-empty, selected_file is one of
\* its filenames, and its entry list in files_dict is non-empty.
C5_SelectedFileInCatalog ==
  (data # <<>> /\ ~BuildRaises(data))
    => /\ Has("selected_file")
       /\ selected_file \in Range(FirstOccurrences(data))
       /\ selected_file \in DOMAIN files_dict
       /\ files_dict[selected_file] # <<>>

----------------------------------------------------------------------------
(* C6 *)

InFileEvents == {"prev", "next", "select_entry"}

\* the selected file stayed what it was throughout the run: every file
\* selector the run drew returned it, and it is the selected file at the end
FileUnchanged ==
  /\ pre.file = selected_file
  /\ \A location \in Locations :
       \A id \in Displayed(FileSelectKey(location)) : Shows(id) = pre.file

\* C6: a prev, next or selectEntry event from either control pair, issued at an
\* in-range index and with the selected file unchanged, leaves entry_idx
\* within [0, len(entries)-1].
C6_NavigationBounds ==
  (/\ event.type \in InFileEvents
   /\ FileUnchanged
   /\ InRangeOf(files_dict, pre.file, pre.idx))
    => InRangeOf(files_dict, selected_file, entry_idx)

\* Next was clicked (bottom controls) on the last entry of a file of several.
C6_Witness ==
  /\ event.type = "next" /\ event.location = "bottom"
  /\ FileUnchanged
  /\ InRangeOf(files_dict, pre.file, pre.idx)
  /\ Len(files_dict[selected_file]) >= 2
  /\ pre.idx = Len(files_dict[selected_file]) - 1
  /\ entry_idx = pre.idx

----------------------------------------------------------------------------
(* C7 *)

IndexErrors == {"StreamlitAPIException", "IndexError"}

\* C7 (as claimed): after a Prev event at index i entry_idx is max(0, i-1),
\* after a Next event at index i in a file of n entries it is min(n-1, i+1),
\* and neither raises an index error.
C7_PrevNextStep ==
  (event.type \in {"prev", "next"} /\ InRangeOf(files_dict, pre.file, pre.idx))
    => /\ err \notin IndexErrors
       /\ event.type = "prev"
            => entry_idx = (IF pre.idx - 1 > 0 THEN pre.idx - 1 ELSE 0)
       /\ event.type = "next"
            => entry_idx = (IF pre.idx + 1 < Len(files_dict[pre.file]) - 1
                            THEN pre.idx + 1 ELSE Len(files_dict[pre.file]) - 1)

----------------------------------------------------------------------------
(* C8 *)

\* C8 (as claimed): a payload with an entry that lacks a required field fails
\* when it is loaded, and nothing of it is shown: no file list, no entry, no
\* diff, whatever is navigated to afterwards.
C8_DefectivePayloadShowsNothing ==
  (\E i \in DOMAIN data : ~Complete(data[i]))
    => (err # "none" /\ seen = {} /\ rendered = NoRender)

----------------------------------------------------------------------------
(* C9 *)

\* the position-i entry of the payload is in a bucket of the catalog
InCatalog(i) ==
  \E f \in DOMAIN files_dict : \E k \in DOMAIN files_dict[f] :
    files_dict[f][k] = <<i - 1, data[i]>>

\* an entry's keywords, trimmed (case kept)
TrimmedKeywords(e) == {strip(e.keywords[j]) : j \in DOMAIN e.keywords}

SelectableKeywords == {strip(k) : k \in RawKeywords}

----------------------------------------------------------------------------
(* C10 *)

\* the least 0-based position in priority_order of a keyword the entry has
\* (trimmed, lower-cased), 4 when it has none
LeastPriorityIndex(e) ==
  LET hits == {i \in 0..(Len(priority_order) - 1) :
                 \E j \in DOMAIN e.keywords : lower(strip(e.keywords[j])) = priority_order[i + 1]}
  IN IF hits = {} THEN 4 ELSE CHOOSE i \in hits : \A j \in hits : i <= j

\* C10 (as claimed): the rank is the priority index of the first keyword, in
\* the entry's own keyword order, that is a priority keyword; 4 with none.
C10_RankByEntryKeywordOrder ==
  CatalogBuilt => \A i \in DOMAIN data : get_priority(data[i]) = get_priority_entry_order(data[i])

\* C10 (amended): the rank is the least index in [grammar, spelling,
\* capitalization, punctuation] of an element that is one of the entry's
\* keywords (trimmed, compared case-insensitively), whatever the order of the
\* entry's own keywords; 4 when no keyword matches.
C10_RankIsLeastPriorityIndex ==
  CatalogBuilt => \A i \in DOMAIN data : get_priority(data[i]) = LeastPriorityIndex(data[i])

\* An entry with keywords "punctuation,GRAMMAR" was ranked 0.
C10_Witness ==
  /\ CatalogBuilt
  /\ Len(data) = 1
  /\ data[1].keywords = <<"punctuation", "GRAMMAR">>
  /\ get_priority(data[1]) = 0

----------------------------------------------------------------------------
(* C11 *)

\* C11: within every bucket of files_dict the entries are in ascending rank,
\* and two entries of a bucket with equal rank are in the order of their
\* positions in the input list.
C11_SortedAndStable ==
  CatalogBuilt
    => \A f \in DOMAIN files_dict : \A k, l \in DOMAIN files_dict[f] :
         k < l => LET p == files_dict[f][k]
                      q == files_dict[f][l]
                  IN /\ get_priority(p[2]) <= get_priority(q[2])
                     /\ get_priority(p[2]) = get_priority(q[2]) => p[1] < q[1]

\* A bucket of three whose sort moved the last input entry to the front and
\* kept two entries of equal rank in input order.
C11_Witness ==
  /\ CatalogBuilt
  /\ \E f \in DOMAIN files_dict :
       /\ Len(files_dict[f]) = 3
       /\ files_dict[f][1][1] = 2
       /\ files_dict[f][2][1] = 0
       /\ files_dict[f][3][1] = 1
       /\ get_priority(files_dict[f][2][2]) = get_priority(files_dict[f][3][2])
       /\ get_priority(files_dict[f][1][2]) < get_priority(files_dict[f][2][2])

----------------------------------------------------------------------------
(* C12 *)

\* the places of bucket f that hold input position i (0-based)
PlacesOf(f, i) == {k \in DOMAIN files_dict[f] : files_dict[f][k][1] = i}

\* C12: every input entry, identified by its input position, occurs exactly
\* once in the bucket keyed by its filename and in no other bucket; every
\* element of a bucket is such an input entry; no bucket is empty.
C12_GroupingComplete ==
  CatalogBuilt
    => /\ \A i \in DOMAIN data :
            /\ data[i].filename \in DOMAIN files_dict
            /\ \A f \in DOMAIN files_dict :
                 Cardinality(PlacesOf(f, i - 1)) = (IF f = data[i].filename THEN 1 ELSE 0)
       /\ \A f \in DOMAIN files_dict : \A k \in DOMAIN files_dict[f] :
            LET p == files_dict[f][k]
            IN /\ p[1] + 1 \in DOMAIN data
               /\ p[2] = data[p[1] + 1]
               /\ p[2].filename = f
       /\ \A f \in DOMAIN files_dict : files_dict[f] # <<>>

\* Three entries of two files, interleaved, grouped into two buckets.
C12_Witness ==
  /\ CatalogBuilt
  /\ Len(data) = 3
  /\ data[1].filename = data[3].filename
  /\ data[1].filename # data[2].filename
  /\ Len(files_dict[data[1].filename]) = 2
  /\ Len(files_dict[data[2].filename]) = 1

----------------------------------------------------------------------------
(* C13 *)

\* the position in the input of the first entry of file f
FirstPos(f) ==
  CHOOSE i \in DOMAIN data :
    data[i].filename = f /\ \A j \in 1..(i - 1) : data[j].filename # f

\* C13: filenames lists each filename of the input once, in the order of their
\* first occurrences in the input, and a fresh session starts on the first of
\* them with entry_idx = 0.
C13_FirstOccurrenceOrder ==
  CatalogBuilt
    => /\ Range(filenames) = {data[i].filename : i \in DOMAIN data}
       /\ \A k, l \in DOMAIN filenames :
            k < l => FirstPos(filenames[k]) < FirstPos(filenames[l])
       /\ (event.type = "upload" /\ pre = NoPre)
            => (selected_file = filenames[1] /\ entry_idx = 0)

\* A fresh session on an input whose first file is b.txt, followed by a.txt.
C13_Witness ==
  /\ CatalogBuilt
  /\ event.type = "upload" /\ pre = NoPre
  /\ filenames = <<"b.txt", "a.txt">>
  /\ selected_file = "b.txt"
  /\ entry_idx = 0

----------------------------------------------------------------------------
(* C14 *)

\* the entry the last run rendered
RenderedEntry == data[rendered.idx + 1]

\* Python's x[lo:hi]
Slice(x, lo, hi) == SubSeq(x, lo + 1, hi)

RECURSIVE ApplyOps(_, _, _, _, _)
\* the lines obtained from a by applying the operations from the n-th on, the
\* earlier ones having consumed a[0:at]: equal copies its range of a, delete
\* drops it, insert and replace put b's range in its place; an operation that
\* does not start where the one before it ended yields no text
ApplyOps(ops, n, at, a, b) ==
  IF n > Len(ops) THEN (IF at = Len(a) THEN <<>> ELSE <<"(lines of a left over)">>)
  ELSE LET op == ops[n]
           out == IF op.tag = "equal" THEN Slice(a, op.i1, op.i2)
                  ELSE IF op.tag = "delete" THEN <<>>
                  ELSE Slice(b, op.j1, op.j2)
       IN IF op.i1 # at THEN <<"(operations out of order)">>
          ELSE out \o ApplyOps(ops, n + 1, op.i2, a, b)

----------------------------------------------------------------------------
(* C15 *)

----------------------------------------------------------------------------
(* C16 *)

\* C16 (as claimed): when a run triggered by an event on the top or the bottom
\* controls has completed, the entry it rendered is the entry at position
\* entry_idx of files_dict[selected_file], for the selected_file and entry_idx
\* the session state holds at the end of the run.
C16_RenderedMatchesFinalState ==
  (event.type \in NavigationEvents /\ err = "none" /\ rendered # NoRender)
    => /\ InRangeOf(files_dict, selected_file, entry_idx)
       /\ files_dict[selected_file][entry_idx + 1] = <<rendered.idx, RenderedEntry>>

----------------------------------------------------------------------------
(* C17 *)

\* C17: with an empty payload, or none, the run stops before the catalog is
\* built: no catalog, no control and no entry is drawn, entry_idx is used
\* nowhere, the session state is what it was before the run (its keys are not
\* initialised), and no error is raised.
C17_EmptyDatasetStops ==
  data = <<>>
    => /\ err = "none"
       /\ ~CatalogBuilt /\ files_dict = NoFiles /\ entries = <<>>
       /\ seen = {} /\ rendered = NoRender /\ uses = <<>>
       /\ SessionSnapshot = pre
       /\ (pre = NoPre => session_state = EmptySession)

\* An empty list was uploaded in a session that had loaded nothing before.
C17_Witness ==
  /\ event.type = "upload"
  /\ uploaded
  /\ data = <<>>
  /\ session_state = EmptySession
  /\ err = "none"

----------------------------------------------------------------------------
(* C18 *)

\* a navigation event leaves the catalog as it was
CatalogFrame ==
  event'.type \in NavigationEvents => (files_dict' = files_dict /\ filenames' = filenames)

\* an in-file event leaves selected_file as it was
SelectedFileFrame ==
  event'.type \in InFileEvents => selected_file' = selected_file

\* C18 (as claimed): a prev, next or selectEntry event from either control
\* pair leaves selected_file unchanged, and no navigation event, selectFile
\* included, changes filenames, the membership of a bucket or its order.
C18_NavigationFrame == [][CatalogFrame /\ SelectedFileFrame]_vars

\* the catalog half of C18 alone
C18_CatalogFrame == [][CatalogFrame]_vars

====
